---- MODULE Spec2Model ----
(***************************************************************************)
(* A model of otelpy/traces.py: the attribute and name derivation, the     *)
(* instrumentation gate, the four emitters and the decorator factory.      *)
(*                                                                         *)
(* Python values are tagged records [t, v].  Strings that the code takes   *)
(* apart (the qualified name, the environment flag) are sequences of       *)
(* one-character strings; all other strings are TLA+ strings.  A dict is a *)
(* function from its keys to its values.                                   *)
(***************************************************************************)
EXTENDS Integers, Sequences, FiniteSets, TLC

VARIABLES env, ctx, bound, stack, spans, active, last, ncalls, input, output

vars == <<env, ctx, bound, stack, spans, active, last, ncalls, input, output>>

(***************************************************************************)
(* Bounds of the model.                                                    *)
(***************************************************************************)
MaxDepth == 2
MaxCalls == 3
MaxKwargs == 2

(***************************************************************************)
(* Python values.                                                          *)
(***************************************************************************)
PyNone == [t |-> "none", v |-> 0]
PyInt(n) == [t |-> "int", v |-> n]
PyStr(s) == [t |-> "str", v |-> s]
PyBool(b) == [t |-> "bool", v |-> b]

EmptyDict == [k \in {} |-> PyNone]

DictUpdate(d, e) ==
    [k \in (DOMAIN d) \cup (DOMAIN e) |-> IF k \in DOMAIN e THEN e[k] ELSE d[k]]

\* bool(x): the truth value Python's `or` and `not` test.
Truthy(x) ==
    CASE x.t = "none" -> FALSE
      [] x.t = "bool" -> x.v
      [] x.t = "int" -> x.v # 0
      [] x.t = "str" -> x.v # ""

DigitStr(d) ==
    CASE d = 0 -> "0" [] d = 1 -> "1" [] d = 2 -> "2" [] d = 3 -> "3"
      [] d = 4 -> "4" [] d = 5 -> "5" [] d = 6 -> "6" [] d = 7 -> "7"
      [] d = 8 -> "8" [] d = 9 -> "9"

RECURSIVE NatStr(_)
NatStr(n) == IF n < 10 THEN DigitStr(n) ELSE NatStr(n \div 10) \o DigitStr(n % 10)

\* str(x)
PyStrOf(x) ==
    CASE x.t = "none" -> "None"
      [] x.t = "bool" -> (IF x.v THEN "True" ELSE "False")
      [] x.t = "int" -> (IF x.v < 0 THEN "-" \o NatStr(0 - x.v) ELSE NatStr(x.v))
      [] x.t = "str" -> x.v

\* The types the lambda of function_attributes names.
ScalarTypes == {"bool", "str", "bytes", "int", "float"}

CoerceUnlessScalarTyped(value) == value.t \in ScalarTypes

\* `if lambda value: ...:` tests the lambda object, never calls it; a function
\* object is truthy.
CoercionTest(value) == TRUE

\* The coercion step of the loop over kwargs.
Coerce(value) == IF CoercionTest(value) THEN PyStr(PyStrOf(value)) ELSE value

(***************************************************************************)
(* Call binding: a callee with named parameters `params` followed by       *)
(* *args and **kwargs, called with positional values `pos` and keywords    *)
(* `kw`.  A keyword that names a parameter already filled positionally is  *)
(* Python's TypeError "got multiple values for argument".                  *)
(***************************************************************************)
Ok(v) == [exc |-> "none", val |-> v]
Raised(e, v) == [exc |-> e, val |-> v]

ParamSet(params) == {params[i] : i \in 1..Len(params)}

BindClash(params, kw) == (DOMAIN kw) \cap ParamSet(params) # {}

ParamIndex(params, p) == CHOOSE i \in 1..Len(params) : params[i] = p

Bind(params, pos) ==
    [p \in ParamSet(params) |-> pos[ParamIndex(params, p)]]

VarArgs(params, pos) == SubSeq(pos, Len(params) + 1, Len(pos))

(***************************************************************************)
(* TracingOptions.TracingAttributes                                        *)
(***************************************************************************)
Dot == "."

NoName == <<"s", "p", "a", "n", ".", "n", "o", "_", "n", "a", "m", "e">>

HasDot(q) == \E i \in 1..Len(q) : q[i] = Dot

FirstDot(q) == CHOOSE i \in 1..Len(q) : q[i] = Dot /\ \A j \in 1..(i - 1) : q[j] # Dot

LastDot(q) == CHOOSE i \in 1..Len(q) : q[i] = Dot /\ \A j \in (i + 1)..Len(q) : q[j] # Dot

\* q.split('.')[0]
FirstSegment(q) == IF HasDot(q) THEN SubSeq(q, 1, FirstDot(q) - 1) ELSE q

OwnNameScheme(func) ==
    IF HasDot(func.qualname)
    THEN SubSeq(func.qualname, LastDot(func.qualname) + 1, Len(func.qualname))
    ELSE func.qualname

function_qualified_name(func) ==
    IF HasDot(func.qualname) THEN FirstSegment(func.qualname) ELSE NoName

FunctionAttributesParams == <<"func", "user_attributes", "span_parameters">>

UserFirstAttributes(func, user_attributes, span_parameters, kwargs) ==
    IF BindClash(FunctionAttributesParams, kwargs)
    THEN Raised("TypeError", EmptyDict)
    ELSE LET meta == [k \in {"module", "method"} |->
                         IF k = "module" THEN PyStr(func.module) ELSE PyStr(func.name)]
             withUser == IF user_attributes.none THEN meta
                         ELSE DictUpdate(meta, user_attributes.d)
             withArgs == IF span_parameters
                         THEN DictUpdate(withUser, [k \in DOMAIN kwargs |-> Coerce(kwargs[k])])
                         ELSE withUser
         IN  Ok(withArgs)

\* user_attributes is [none |-> TRUE, d |-> EmptyDict] for None, else
\* [none |-> FALSE, d |-> the mapping].
function_attributes(func, user_attributes, span_parameters, kwargs) ==
    IF BindClash(FunctionAttributesParams, kwargs)
    THEN Raised("TypeError", EmptyDict)
    ELSE LET meta == [k \in {"module", "method"} |->
                         IF k = "module" THEN PyStr(func.module) ELSE PyStr(func.name)]
             withArgs == IF span_parameters
                         THEN DictUpdate(meta, [k \in DOMAIN kwargs |-> Coerce(kwargs[k])])
                         ELSE meta
             withUser == IF user_attributes.none THEN withArgs
                         ELSE DictUpdate(withArgs, user_attributes.d)
         IN  Ok(withUser)

\* TracingOptions.naming_scheme and TracingOptions.attributes, as the class
\* body binds them.
naming_scheme(func) == function_qualified_name(func)

attributes(func, user_attributes, span_parameters, kwargs) ==
    function_attributes(func, user_attributes, span_parameters, kwargs)

(***************************************************************************)
(* should_instrumentation                                                  *)
(***************************************************************************)
LowerChar(c) ==
    CASE c = "F" -> "f" [] c = "A" -> "a" [] c = "L" -> "l" [] c = "S" -> "s"
      [] c = "E" -> "e" [] c = "T" -> "t" [] c = "R" -> "r" [] c = "U" -> "u"
      [] OTHER -> c

\* s.lower()
Lower(s) == [i \in 1..Len(s) |-> LowerChar(s[i])]

FalseWord == <<"f", "a", "l", "s", "e">>

\* os.getenv(name): e is [set |-> BOOLEAN, s |-> the value]; None when unset.
\* `os.getenv(...) or 'false'` replaces None and '' alike.
EnvOrFalse(e) == IF e.set /\ e.s # <<>> THEN e.s ELSE FalseWord

EnvWordCaseSensitive(e) == EnvOrFalse(e)

EnvWord(e) == Lower(EnvOrFalse(e))

\* The value of the `or` expression: True, or whatever get_value returned.
should_instrumentation(e, c) ==
    IF EnvWord(e) = FalseWord THEN PyBool(TRUE) ELSE c

(***************************************************************************)
(* The functions being decorated, and what they do when run.               *)
(***************************************************************************)
FuncNames == {"work", "fetch"}

Func(f) ==
    CASE f = "work" ->
           [module |-> "app", name |-> "work", coroutine |-> FALSE,
            qualname |-> <<"w", "o", "r", "k">>]
      [] f = "fetch" ->
           [module |-> "svc", name |-> "fetch", coroutine |-> TRUE,
            qualname |-> <<"S", "v", "c", ".", "f", "e", "t", "c", "h">>]

\* func(*args, **kwargs): the function echoes what it was given, and raises
\* when its first positional argument is 0.
FuncBody(f, args, kwargs) ==
    IF args # <<>> /\ args[1] = PyInt(0)
    THEN Raised("ValueError", <<f, args, kwargs>>)
    ELSE Ok(<<f, args, kwargs>>)

(***************************************************************************)
(* The tracing SDK as the emitters use it.  Span 0 is INVALID_SPAN, which  *)
(* get_current_span returns when no span is active.                        *)
(***************************************************************************)
ExceptionEvent == <<"e", "x", "c", "e", "p", "t", "i", "o", "n">>

get_tracer(module) == module

get_current_span(act) == act

add_event(sp, id, name, attrs) ==
    IF id = 0 THEN sp
    ELSE [sp EXCEPT ![id].events = Append(@, [name |-> name, attributes |-> attrs])]

set_attribute(sp, id, key, value) ==
    [sp EXCEPT ![id].attributes = DictUpdate(@, [k \in {key} |-> value])]

NewSpan(tracer, name, kind, record_exception, parent) ==
    [tracer |-> tracer, name |-> name, kind |-> kind,
     record_exception |-> record_exception, parent |-> parent,
     attributes |-> EmptyDict, events |-> <<>>, ended |-> FALSE, status |-> "unset"]

\* __enter__ of tracer.start_as_current_span(...)
start_as_current_span(sp, act, tracer, name, kind, record_exception) ==
    [spans |-> Append(sp, NewSpan(tracer, name, kind, record_exception, act)),
     span |-> Len(sp) + 1]

LeaveSpanOpen(sp, id, out) == sp

\* __exit__ of it: record the exception when asked to, end the span.
end_span(sp, id, out) ==
    LET recorded == IF out.exc # "none" /\ sp[id].record_exception
                    THEN add_event(sp, id, ExceptionEvent,
                                   [k \in {"exception.type"} |-> PyStr(out.exc)])
                    ELSE sp
    IN  [recorded EXCEPT ![id].ended = TRUE,
                         ![id].status = IF out.exc # "none" THEN "error" ELSE @]

\* A `with` block whose __exit__ returns nothing lets the result or the
\* exception of its body through.
with_exit_outcome(out) == out

(***************************************************************************)
(* The emitters.  An emitter's result says whether the wrapped function    *)
(* was reached (st = "running") and with what, or the call failed before.  *)
(***************************************************************************)
Failed(err, sp, act) ==
    [st |-> "failed", err |-> err, spans |-> sp, active |-> act, span |-> 0,
     fn |-> "", fargs |-> <<>>, fkwargs |-> EmptyDict]

Running(fn, fargs, fkwargs, sp, act, id) ==
    [st |-> "running", err |-> Ok(PyNone), spans |-> sp, active |-> act, span |-> id,
     fn |-> fn, fargs |-> fargs, fkwargs |-> fkwargs]

RECURSIVE SetAll(_, _, _, _)
SetAll(sp, id, d, keys) ==
    IF keys = {} THEN sp
    ELSE LET k == CHOOSE x \in keys : TRUE
         IN  SetAll(set_attribute(sp, id, k, d[k]), id, d, keys \ {k})

_set_attributes(sp, id, attributes_dict) ==
    IF DOMAIN attributes_dict # {}
    THEN SetAll(sp, id, attributes_dict, DOMAIN attributes_dict)
    ELSE sp

SpanEventParams == <<"func", "name", "span_attributes">>
SpanParams == <<"func", "tracer", "name", "span_attributes", "kind", "record_exception">>
AsyncSpanParams == <<"func", "tracer", "record_exception", "name", "span_attributes", "kind">>

\* get_current_span() is never None, so add_event is always called; on
\* INVALID_SPAN it does nothing.
EventBody(b, args, kwargs, sp, act) ==
    LET current_span == get_current_span(act)
    IN  Running(b["func"], args, kwargs,
                add_event(sp, current_span, b["name"], b["span_attributes"]), act, 0)

EventEmitter(params, pos, kw, sp, act) ==
    IF BindClash(params, kw) THEN Failed(Raised("TypeError", PyNone), sp, act)
    ELSE EventBody(Bind(params, pos), VarArgs(params, pos), kw, sp, act)

SpanBody(b, args, kwargs, sp, act) ==
    LET started == start_as_current_span(sp, act, b["tracer"], b["name"], b["kind"],
                                         b["record_exception"])
    IN  Running(b["func"], args, kwargs,
                _set_attributes(started.spans, started.span, b["span_attributes"]),
                started.span, started.span)

SpanEmitter(params, pos, kw, sp, act) ==
    IF BindClash(params, kw) THEN Failed(Raised("TypeError", PyNone), sp, act)
    ELSE SpanBody(Bind(params, pos), VarArgs(params, pos), kw, sp, act)

span_event(pos, kw, sp, act) == EventEmitter(SpanEventParams, pos, kw, sp, act)

span(pos, kw, sp, act) == SpanEmitter(SpanParams, pos, kw, sp, act)

async_span_event(pos, kw, sp, act) == EventEmitter(SpanEventParams, pos, kw, sp, act)

async_span(pos, kw, sp, act) == SpanEmitter(AsyncSpanParams, pos, kw, sp, act)

(***************************************************************************)
(* instrumented_trace                                                      *)
(***************************************************************************)
NoAttributes == [none |-> TRUE, d |-> EmptyDict]
UserAttributes(d) == [none |-> FALSE, d |-> d]

DefaultOptions ==
    [span_name |-> <<>>, record_exception |-> TRUE, attributes |-> NoAttributes,
     type |-> "trace", kind |-> "internal", span_parameters |-> FALSE]

\* name = span_name or TracingOptions.naming_scheme(func)
SpanNameOf(func, opt) ==
    IF opt.span_name # <<>> THEN opt.span_name ELSE naming_scheme(func)

wrap_with_span_sync(f, opt, args, kwargs, sp, act) ==
    LET name == SpanNameOf(Func(f), opt)
        span_attributes == attributes(Func(f), opt.attributes, opt.span_parameters, kwargs)
    IN  IF span_attributes.exc # "none" THEN Failed(span_attributes, sp, act)
        ELSE IF opt.type = "event"
        THEN span_event(<<f, name, span_attributes.val>> \o args, kwargs, sp, act)
        ELSE span(<<f, get_tracer(Func(f).module), name, span_attributes.val, opt.kind,
                    opt.record_exception>> \o args, kwargs, sp, act)

wrap_with_span_async(f, opt, args, kwargs, sp, act) ==
    LET name == SpanNameOf(Func(f), opt)
        span_attributes == attributes(Func(f), opt.attributes, opt.span_parameters, kwargs)
    IN  IF span_attributes.exc # "none" THEN Failed(span_attributes, sp, act)
        ELSE IF opt.type = "event"
        THEN async_span_event(<<f, name, span_attributes.val>> \o args, kwargs, sp, act)
        ELSE async_span(<<f, get_tracer(Func(f).module), opt.record_exception, name,
                          span_attributes.val, opt.kind>> \o args, kwargs, sp, act)

\* A callable: the function itself (via = "plain") or one of the two
\* wrappers with the options it closed over.
Original(f) == [via |-> "plain", opt |-> DefaultOptions]

span_decorator(f, opt) ==
    [via |-> IF Func(f).coroutine THEN "async" ELSE "sync", opt |-> opt]

\* `lambda func: func`, and the closure span_decorator.
IdentityDecorator == [identity |-> TRUE, opt |-> DefaultOptions]

SpanDecorator(opt) == [identity |-> FALSE, opt |-> opt]

ApplyDecorator(dec, f) == IF dec.identity THEN Original(f) ELSE span_decorator(f, dec.opt)

NeverClosed(gate) == FALSE

\* `if not should_instrumentation():`
GateClosed(gate) == ~Truthy(gate)

\* instrumented_trace(func, **opt): the bare shape.
instrumented_trace_bare(f, opt, e, c) ==
    IF GateClosed(should_instrumentation(e, c)) THEN Original(f)
    ELSE span_decorator(f, opt)

\* instrumented_trace(**opt): the factory shape, which returns a decorator.
instrumented_trace_factory(opt, e, c) ==
    IF GateClosed(should_instrumentation(e, c)) THEN IdentityDecorator
    ELSE SpanDecorator(opt)

(***************************************************************************)
(* The inputs of the main specification.                                   *)
(***************************************************************************)
\* What a function's name is bound to, with whether instrumented_trace was
\* applied to it and what the gate said then.
Binding(decorated, gate, callable) ==
    [decorated |-> decorated, gate |-> gate, via |-> callable.via, opt |-> callable.opt]

Unset == [set |-> FALSE, s |-> <<>>]
EnvSet(s) == [set |-> TRUE, s |-> s]

EnvValues == {Unset, EnvSet(<<"t", "r", "u", "e">>)}

CtxValues == {PyNone, PyBool(TRUE)}

OptionValues ==
    {DefaultOptions,
     [DefaultOptions EXCEPT !.type = "event", !.span_parameters = TRUE,
                            !.attributes = UserAttributes([a |-> PyStr("y")])],
     [DefaultOptions EXCEPT !.span_name = <<"j", "o", "b">>, !.record_exception = FALSE,
                            !.kind = "client", !.span_parameters = TRUE]}

\* The (args, kwargs) of the calls made: keywords that no parameter of the
\* library's own functions is named after, one named after a parameter of
\* span and async_span only, one named after a parameter of every one of
\* them, and a first positional argument that makes the function raise.
CallValues ==
    {<< <<>>, EmptyDict >>,
     << <<>>, [kind |-> PyStr("x")] >>,
     << <<>>, [func |-> PyNone] >>,
     << <<PyInt(0)>>, [a |-> PyInt(1)] >>,
     << <<PyInt(7)>>, [a |-> PyInt(1)] >>}

(***************************************************************************)
(* State.                                                                  *)
(*   env, ctx   OTLP_INSTRUMENTATION_DISABLE and the ambient override      *)
(*   bound      what each function's name is bound to                      *)
(*   stack      the invocations in progress, innermost last                *)
(*   spans      the spans started and not yet flushed by the processor     *)
(*   active     the current span of the ambient context (0: none)          *)
(*   last       the invocation that completed last                         *)
(*   ncalls     invocations since the last flush                           *)
(*   input, output   used by the specifications of the pure functions      *)
(***************************************************************************)
NoLast ==
    [set |-> FALSE, called |-> "", via |-> "plain", type |-> "none", args |-> <<>>,
     kwargs |-> EmptyDict, out |-> Ok(PyNone), inner |-> Ok(PyNone), ran |-> 0,
     span |-> 0, prev |-> 0, opened |-> 0, appended |-> 0]

Idle == [done |-> FALSE, val |-> PyNone]

\* Nothing decorated, nothing called, the variable unset, no override.
MainIdle ==
    /\ env = Unset
    /\ ctx = PyNone
    /\ bound = [f \in FuncNames |-> Binding(FALSE, TRUE, Original(f))]
    /\ stack = <<>>
    /\ spans = <<>>
    /\ active = 0
    /\ last = NoLast
    /\ ncalls = 0

Init == MainIdle /\ input = PyNone /\ output = Idle

EventCount(sp) ==
    LET RECURSIVE Sum(_)
        Sum(i) == IF i = 0 THEN 0 ELSE Len(sp[i].events) + Sum(i - 1)
    IN  Sum(Len(sp))

\* os.environ[...] = v, or its removal
SetEnv(v) ==
    /\ v # env
    /\ env' = v
    /\ UNCHANGED <<ctx, bound, stack, spans, active, last, ncalls, input, output>>

\* context_api.attach(set_value('override_enable_content_tracing', v))
SetContext(v) ==
    /\ v # ctx
    /\ ctx' = v
    /\ UNCHANGED <<env, bound, stack, spans, active, last, ncalls, input, output>>

\* @instrumented_trace above the definition of f
DecorateBare(f, opt) ==
    /\ ~bound[f].decorated
    /\ stack = <<>>
    /\ bound' = [bound EXCEPT ![f] =
                    Binding(TRUE, Truthy(should_instrumentation(env, ctx)),
                            instrumented_trace_bare(f, opt, env, ctx))]
    /\ UNCHANGED <<env, ctx, stack, spans, active, last, ncalls, input, output>>

\* @instrumented_trace(option=...) above the definition of f
DecorateFactory(f, opt) ==
    /\ ~bound[f].decorated
    /\ stack = <<>>
    /\ bound' = [bound EXCEPT ![f] =
                    Binding(TRUE, Truthy(should_instrumentation(env, ctx)),
                            ApplyDecorator(instrumented_trace_factory(opt, env, ctx), f))]
    /\ UNCHANGED <<env, ctx, stack, spans, active, last, ncalls, input, output>>

Top == stack[Len(stack)]

CanCall(f) ==
    /\ Len(stack) < MaxDepth
    /\ ncalls < MaxCalls
    /\ stack = <<>> => ncalls = 0
    /\ stack # <<>> => /\ Top.st = "running"
                       /\ Top.pending.exc = "none"
                       /\ Func(f).coroutine => Func(Top.called).coroutine

\* The caller evaluates f(*args, **kwargs) (and awaits it at once, when f is
\* a coroutine function): whatever f is bound to runs up to the first statement of the
\* wrapped function, or fails before reaching it.
Call(f, args, kwargs) ==
    /\ CanCall(f)
    /\ LET b == bound[f]
           eff == CASE b.via = "plain" -> Running(f, args, kwargs, spans, active, 0)
                    [] b.via = "sync" ->
                         wrap_with_span_sync(f, b.opt, args, kwargs, spans, active)
                    [] b.via = "async" ->
                         wrap_with_span_async(f, b.opt, args, kwargs, spans, active)
       IN  /\ stack' = Append(stack,
                  [called |-> f, via |-> b.via,
                   type |-> IF b.via = "plain" THEN "none" ELSE b.opt.type,
                   args |-> args, kwargs |-> kwargs,
                   st |-> eff.st, err |-> eff.err, fn |-> eff.fn,
                   fargs |-> eff.fargs, fkwargs |-> eff.fkwargs,
                   span |-> eff.span, prev |-> active, pending |-> Ok(PyNone),
                   opened |-> Len(eff.spans) - Len(spans),
                   appended |-> EventCount(eff.spans) - EventCount(spans)])
           /\ spans' = eff.spans
           /\ active' = eff.active
    /\ last' = NoLast
    /\ ncalls' = ncalls + 1
    /\ UNCHANGED <<env, ctx, bound, input, output>>

\* What the innermost invocation ends with: the failure of the wrapper, the
\* exception of a callee passing through, or what the function itself does.
Outcome(fr) ==
    IF fr.st = "failed" THEN fr.err
    ELSE IF fr.pending.exc # "none" THEN fr.pending
    ELSE FuncBody(fr.fn, fr.fargs, fr.fkwargs)

\* The context token of start_as_current_span is detached on exit.
detach(fr, act) == IF fr.span # 0 THEN fr.prev ELSE act

Leave(fr, out) ==
    LET final == IF fr.span # 0 THEN with_exit_outcome(out) ELSE out
        rest == SubSeq(stack, 1, Len(stack) - 1)
    IN  /\ spans' = IF fr.span # 0 THEN end_span(spans, fr.span, out) ELSE spans
        /\ active' = detach(fr, active)
        /\ stack' = IF rest # <<>> /\ final.exc # "none"
                    THEN [rest EXCEPT ![Len(rest)].pending = final]
                    ELSE rest
        /\ last' = [set |-> TRUE, called |-> fr.called, via |-> fr.via, type |-> fr.type,
                    args |-> fr.args, kwargs |-> fr.kwargs, out |-> final,
                    ran |-> IF fr.st = "running" THEN 1 ELSE 0,
                    inner |-> fr.pending, span |-> fr.span, prev |-> fr.prev,
                    opened |-> fr.opened, appended |-> fr.appended]
        /\ UNCHANGED <<env, ctx, bound, ncalls, input, output>>

\* The innermost invocation returns.
Return ==
    /\ stack # <<>>
    /\ Outcome(Top).exc = "none"
    /\ Leave(Top, Outcome(Top))

\* The innermost invocation ends with an exception.
Raise ==
    /\ stack # <<>>
    /\ Outcome(Top).exc # "none"
    /\ Leave(Top, Outcome(Top))

\* The span processor hands the finished spans on.
Flush ==
    /\ stack = <<>>
    /\ ncalls > 0
    /\ spans' = <<>>
    /\ ncalls' = 0
    /\ last' = NoLast
    /\ UNCHANGED <<env, ctx, bound, stack, active, input, output>>

Next ==
    \/ \E v \in EnvValues : SetEnv(v)
    \/ \E v \in CtxValues : SetContext(v)
    \/ \E f \in FuncNames, opt \in OptionValues : DecorateBare(f, opt)
    \/ \E f \in FuncNames, opt \in OptionValues : DecorateFactory(f, opt)
    \/ \E f \in FuncNames, c \in CallValues : Call(f, c[1], c[2])
    \/ Return
    \/ Raise
    \/ Flush

Spec == Init /\ [][Next]_vars

(***************************************************************************)
(* function_attributes on its own: every combination of a function, a      *)
(* user mapping, the span_parameters flag and a set of keyword arguments.  *)
(***************************************************************************)
MainUnchanged == UNCHANGED <<env, ctx, bound, stack, spans, active, last, ncalls>>

AttrKeys == {"a", "b", "module", "method", "func"}

AttrValues == {PyInt(1), PyInt(-12), PyStr("x"), PyNone, PyBool(TRUE)}

KwargDicts ==
    UNION {[S -> AttrValues] : S \in {T \in SUBSET AttrKeys : Cardinality(T) <= MaxKwargs}}

UserAttributeValues ==
    {NoAttributes, UserAttributes(EmptyDict), UserAttributes([a |-> PyStr("y")]),
     UserAttributes([module |-> PyStr("m2"), b |-> PyInt(5)]),
     UserAttributes([method |-> PyNone])}

AttrInputs ==
    [func : {Func(f) : f \in FuncNames}, user_attributes : UserAttributeValues,
     span_parameters : BOOLEAN, kwargs : KwargDicts]

InitAttributes == MainIdle /\ input \in AttrInputs /\ output = Idle

ApplyFunctionAttributes ==
    /\ ~output.done
    /\ output' = [done |-> TRUE,
                  val |-> attributes(input.func, input.user_attributes,
                                     input.span_parameters, input.kwargs)]
    /\ UNCHANGED input
    /\ MainUnchanged

SpecAttributes == InitAttributes /\ [][ApplyFunctionAttributes]_vars

(***************************************************************************)
(* The name of a span or event on its own.                                 *)
(***************************************************************************)
MaxQualLen == 4

QualChars == {"a", "b", Dot}

\* A qualified name is dot-separated, with no empty segment.
QualNames ==
    {q \in UNION {[1..n -> QualChars] : n \in 1..MaxQualLen} :
        /\ q[1] # Dot
        /\ q[Len(q)] # Dot
        /\ \A i \in 1..(Len(q) - 1) : ~(q[i] = Dot /\ q[i + 1] = Dot)}

SpanNames == {<<>>, <<"j", "o", "b">>, <<"a", ".", "b">>}

NameInputs ==
    [func : {[module |-> "app", name |-> "f", coroutine |-> FALSE, qualname |-> q] :
                q \in QualNames},
     opt : {[DefaultOptions EXCEPT !.span_name = n] : n \in SpanNames}]

InitNaming == MainIdle /\ input \in NameInputs /\ output = Idle

ApplyNaming ==
    /\ ~output.done
    /\ output' = [done |-> TRUE, val |-> SpanNameOf(input.func, input.opt)]
    /\ UNCHANGED input
    /\ MainUnchanged

SpecNaming == InitNaming /\ [][ApplyNaming]_vars

(***************************************************************************)
(* should_instrumentation on its own.                                      *)
(***************************************************************************)
GateEnvValues ==
    {Unset} \cup
    {EnvSet(s) : s \in
        {<<>>, <<"f", "a", "l", "s", "e">>, <<"F", "a", "l", "s", "e">>,
         <<"F", "A", "L", "S", "E">>, <<"f", "A", "l", "S", "e">>,
         <<"t", "r", "u", "e">>, <<"T", "r", "u", "e">>, <<"T", "R", "U", "E">>,
         <<"0">>, <<"1">>, <<"n", "o">>, <<"f", "a", "l", "s">>,
         <<"f", "a", "l", "s", "e", "e">>, <<" ", "f", "a", "l", "s", "e">>}}

GateCtxValues ==
    {PyNone, PyBool(FALSE), PyBool(TRUE), PyInt(0), PyInt(1), PyStr(""), PyStr("yes")}

GateInputs == [e : GateEnvValues, c : GateCtxValues]

InitGate == MainIdle /\ input \in GateInputs /\ output = Idle

ApplyGate ==
    /\ ~output.done
    /\ output' = [done |-> TRUE, val |-> should_instrumentation(input.e, input.c)]
    /\ UNCHANGED input
    /\ MainUnchanged

SpecGate == InitGate /\ [][ApplyGate]_vars

(***************************************************************************)
(* Properties.                                                             *)
(***************************************************************************)
Computed == output.done /\ output.val.exc = "none"

UserOf(in) == IF in.user_attributes.none THEN EmptyDict ELSE in.user_attributes.d

MetaOf(func, k) == IF k = "module" THEN PyStr(func.module) ELSE PyStr(func.name)

\* The text str() gives for each value the keyword arguments are drawn from.
ExpectedText(v) ==
    CASE v = PyInt(1) -> "1"
      [] v = PyInt(-12) -> "-12"
      [] v = PyStr("x") -> "x"
      [] v = PyNone -> "None"
      [] v = PyBool(TRUE) -> "True"

\* C1: in the attribute set function_attributes builds, a user-supplied key
\* has the user's value whatever the keyword arguments and the metadata
\* say; with span_parameters, a keyword argument the user did not override
\* (one named 'module' or 'method' included) has the argument's text; and
\* 'module' and 'method' have the metadata values only when nothing else
\* supplies them.
C1_Precedence ==
    Computed =>
        LET r == output.val.val
            user == UserOf(input)
            kw == IF input.span_parameters THEN input.kwargs ELSE EmptyDict
        IN  /\ \A k \in DOMAIN user : r[k] = user[k]
            /\ \A k \in (DOMAIN kw) \ (DOMAIN user) : r[k].v = ExpectedText(kw[k])
            /\ \A k \in {"module", "method"} \ ((DOMAIN user) \cup (DOMAIN kw)) :
                  r[k] = MetaOf(input.func, k)

C1_Witness ==
    /\ Computed
    /\ input.span_parameters
    /\ "module" \in (DOMAIN input.kwargs) \cap (DOMAIN UserOf(input))
    /\ "method" \in (DOMAIN input.kwargs) \ (DOMAIN UserOf(input))
    /\ output.val.val["module"] = UserOf(input)["module"]
    /\ output.val.val["method"] # MetaOf(input.func, "method")

\* C2: with span_parameters true every keyword argument not overridden by a
\* user attribute is in the attribute set as a string, the text of its
\* value, whatever the type of the value; with span_parameters false the
\* attribute set has exactly the keys 'module', 'method' and the user's, and
\* no value comes from a keyword argument.
C2_Coercion ==
    Computed =>
        LET r == output.val.val
            user == UserOf(input)
        IN  IF input.span_parameters
            THEN \A k \in (DOMAIN input.kwargs) \ (DOMAIN user) :
                    /\ k \in DOMAIN r
                    /\ r[k] = PyStr(ExpectedText(input.kwargs[k]))
            ELSE /\ DOMAIN r = {"module", "method"} \cup (DOMAIN user)
                 /\ \A k \in DOMAIN r :
                       r[k] = IF k \in DOMAIN user THEN user[k] ELSE MetaOf(input.func, k)

C2_Witness ==
    /\ Computed
    /\ input.span_parameters
    /\ \E k \in (DOMAIN input.kwargs) \ (DOMAIN UserOf(input)) :
          /\ input.kwargs[k] = PyNone
          /\ output.val.val[k] = PyStr("None")
    /\ \E k \in (DOMAIN input.kwargs) \ (DOMAIN UserOf(input)) :
          /\ input.kwargs[k] = PyInt(-12)
          /\ output.val.val[k] = PyStr("-12")

\* C3: a function decorated while the gate was off is bound to the function
\* itself, and no invocation of it, whatever the gate says later, opens a
\* span or appends an event.
C3_GateOffKeepsOriginal ==
    \A f \in FuncNames :
        (bound[f].decorated /\ ~bound[f].gate) =>
            /\ bound[f].via = "plain"
            /\ \A i \in 1..Len(stack) :
                  stack[i].called = f =>
                      /\ stack[i].via = "plain"
                      /\ stack[i].span = 0
                      /\ stack[i].opened = 0
                      /\ stack[i].appended = 0
            /\ (last.set /\ last.called = f) =>
                  /\ last.span = 0
                  /\ last.opened = 0
                  /\ last.appended = 0

C3_Witness ==
    \E f \in FuncNames :
        /\ bound[f].decorated
        /\ ~bound[f].gate
        /\ Truthy(should_instrumentation(env, ctx))
        /\ active # 0
        /\ stack # <<>>
        /\ Top.called = f
        /\ Top.st = "running"

UpperChar(c) ==
    CASE c = "f" -> "F" [] c = "a" -> "A" [] c = "l" -> "L" [] c = "s" -> "S"
      [] c = "e" -> "E"

\* s is 'false' in some mix of upper and lower case.
IsFalseSpelling(s) ==
    /\ Len(s) = Len(FalseWord)
    /\ \A i \in 1..Len(s) : s[i] \in {FalseWord[i], UpperChar(FalseWord[i])}

\* C4 as stated: tracing is reported active except when the variable is set
\* to a value other than 'false' (in any case) and the override is absent
\* or falsy.
C4_AsStated ==
    output.done =>
        (Truthy(output.val) <=>
            ~(input.e.set /\ ~IsFalseSpelling(input.e.s) /\ ~Truthy(input.c)))

\* C4: tracing is reported active except when the variable is set to a
\* non-empty value other than 'false' (in any case) and the override is
\* absent or falsy.
C4_Gate ==
    output.done =>
        (Truthy(output.val) <=>
            ~(/\ input.e.set
              /\ input.e.s # <<>>
              /\ ~IsFalseSpelling(input.e.s)
              /\ ~Truthy(input.c)))

C4_Witness ==
    /\ output.done
    /\ input.e = EnvSet(<<"T", "R", "U", "E">>)
    /\ input.c = PyInt(0)
    /\ ~Truthy(output.val)

\* C5 as stated: what an invocation of a decorated function does follows the
\* gate at the time of the invocation: with the gate on the wrapper runs,
\* with the gate off no span is opened and no event appended.
C5_GateAtCallTime ==
    [][Len(stack') = Len(stack) + 1 =>
          LET fr == stack'[Len(stack')]
          IN  bound[fr.called].decorated =>
                  IF Truthy(should_instrumentation(env, ctx))
                  THEN fr.via # "plain"
                  ELSE fr.opened = 0 /\ fr.appended = 0]_vars

\* C6: the name is span_name when one is given; else the part of the
\* qualified name before its first dot when it has one; else 'span.no_name'.
C6_Name ==
    output.done =>
        LET q == input.func.qualname
            n == output.val
        IN  IF input.opt.span_name # <<>> THEN n = input.opt.span_name
            ELSE IF \E i \in 1..Len(q) : q[i] = "."
            THEN /\ Len(n) < Len(q)
                 /\ q[Len(n) + 1] = "."
                 /\ \A i \in 1..Len(n) : n[i] = q[i] /\ n[i] # "."
            ELSE n = <<"s", "p", "a", "n", ".", "n", "o", "_", "n", "a", "m", "e">>

C6_Witness ==
    /\ output.done
    /\ input.opt.span_name = <<>>
    /\ input.func.qualname = <<"a", "b">>
    /\ output.val = NoName

\* What the wrapped function of the last invocation does with the caller's
\* arguments: the exception of a callee passing through it, or its own
\* result.
Expected(l) ==
    IF l.inner.exc # "none" THEN l.inner ELSE FuncBody(l.called, l.args, l.kwargs)

\* C7: a span is open exactly while the invocation that opened it is in
\* progress; when the invocation is over, by return or by exception, the
\* active span is the one that was active before it; and an exception of the
\* wrapped function is what the caller gets.
C7_SpanScoped ==
    /\ \A id \in 1..Len(spans) :
          spans[id].ended <=> ~(\E i \in 1..Len(stack) : stack[i].span = id)
    /\ (last.set /\ last.span # 0) =>
          /\ spans[last.span].ended
          /\ active = last.prev
    /\ (last.set /\ last.span # 0 /\ Expected(last).exc # "none") =>
          last.out = Expected(last)

C7_Witness ==
    /\ last.set
    /\ last.span # 0
    /\ last.out.exc = "ValueError"
    /\ last.prev # 0
    /\ active = last.prev
    /\ ~spans[last.span].record_exception
    /\ spans[last.span].ended
    /\ spans[last.prev].record_exception
    /\ ~spans[last.prev].ended

\* C8 as stated: an event-type wrapper invoked with no active span runs the
\* wrapped function once with the caller's arguments, gives its result, and
\* appends nothing.
C8_EventWithoutSpan ==
    (last.set /\ last.via # "plain" /\ last.type = "event" /\ last.prev = 0) =>
        /\ last.ran = 1
        /\ last.appended = 0
        /\ last.out = Expected(last)

\* C9 as stated: the wrapper is the asynchronous one exactly for a coroutine
\* function, and an invocation of either wrapper ends as the function itself
\* does on the same positional and keyword arguments.
C9_SameResult ==
    /\ \A f \in FuncNames :
          (bound[f].decorated /\ bound[f].gate) =>
              (bound[f].via = "async" <=> Func(f).coroutine)
    /\ (last.set /\ last.via # "plain") => last.out = Expected(last)

\* C10 as stated: an invocation of an event-type wrapper under an active span
\* appends one event and opens no span; an invocation of a trace-type
\* wrapper opens one span, with the derived name and the configured kind,
\* and appends no event.
C10_KindDecides ==
    \A i \in 1..Len(stack) :
        LET fr == stack[i]
        IN  /\ (fr.via # "plain" /\ fr.type = "event" /\ fr.prev # 0) =>
                  fr.opened = 0 /\ fr.appended = 1
            /\ (fr.via # "plain" /\ fr.type = "trace") =>
                  /\ fr.opened = 1
                  /\ fr.appended = 0
                  /\ fr.span # 0
                  /\ spans[fr.span].name = SpanNameOf(Func(fr.called), bound[fr.called].opt)
                  /\ spans[fr.span].kind = bound[fr.called].opt.kind

====
